---- MODULE Spec2Model ----
(***************************************************************************)
(* get-tmdb: the run of main (output path, Snapshot Acquirer, then one     *)
(* Fetch Pipeline per entity class) and the worker pool of one pipeline:   *)
(* the driving routine that scans the identifier list, the RequestWorker   *)
(* goroutines, the two buffered channels of a chunk and the buffered       *)
(* writer of the output data file.                                         *)
(*                                                                         *)
(* The seven Export...Data methods are the same code up to the class name, *)
(* the lookup path and the record type; one set of actions models them.   *)
(***************************************************************************)
EXTENDS Integers, Sequences, FiniteSets, Bags, TLC

----------------------------------------------------------------------------
(* Bounds of the model.  The program runs 60 workers on chunks of 3000     *)
(* identifiers; both are tunable and the pipeline is the same code for     *)
(* every value, so the model runs it on small pools and small chunks.      *)

numWorkers == 2

chunkSize == 3

\* Longest identifier list of the pipeline specification: one full chunk and
\* the first line of the next.
MaxLines == chunkSize + 1

\* Runs of the program over the same output path, one after the other.
MaxRuns == 2

\* WithMaxRetryCount(20): retries after the first attempt.
MaxRetryCount == 20

----------------------------------------------------------------------------
(* The seven entity classes in the order main exports them.                *)

\* The classes exported in the alphabetical order of their names.
ClassOrderByName == <<"Collection", "Company", "Keyword", "Movie", "Person", "TV Network", "TV Series">>

\* The "if !*skipX { tmdb.Export...Data() }" blocks of main, top to bottom.
ClassOrder == <<"Movie", "TV Series", "Person", "Collection", "TV Network", "Keyword", "Company">>

NumClasses == Len(ClassOrder)

Classes == {ClassOrder[i] : i \in 1..NumClasses}

\* DailyExport.Name of each entry of tmdb.DailyExports: the base name of the
\* snapshot file in the output directory.
ExportFileName ==
    [c \in Classes |->
        CASE c = "Movie" -> "movie_ids.json"
          [] c = "TV Series" -> "tv_series_ids.json"
          [] c = "Person" -> "person_ids.json"
          [] c = "Collection" -> "collection_ids.json"
          [] c = "TV Network" -> "tv_network_ids.json"
          [] c = "Keyword" -> "keyword_ids.json"
          [] c = "Company" -> "company_ids.json"]

\* The base name of the output data file: the media type in lower case with
\* every space replaced by "_", then ".json".
DataFileName ==
    [c \in Classes |->
        CASE c = "Movie" -> "movie.json"
          [] c = "TV Series" -> "tv_series.json"
          [] c = "Person" -> "person.json"
          [] c = "Collection" -> "collection.json"
          [] c = "TV Network" -> "tv_network.json"
          [] c = "Keyword" -> "keyword.json"
          [] c = "Company" -> "company.json"]

----------------------------------------------------------------------------
(* The remote lookup.  A script is what the lookup endpoint serves to the  *)
(* successive attempts of one call: status pre on the first k attempts,    *)
(* status fin on every later one.  Status 0 is a transport error (no       *)
(* response, err # nil).                                                   *)

StatusAt(s, n) == IF n <= s.k THEN s.pre ELSE s.fin

\* The body the endpoint sends with a status: the record of the identifier
\* on success, an error document otherwise, nothing on a transport error.
\* A body is a sequence of tokens; the empty string is the empty sequence.
BodyOf(id) == <<"ok", id>>

ErrorBody == <<"status_message">>

EmptyString == <<>>

ServedBody(status, id) ==
    IF status = 0 THEN EmptyString
    ELSE IF status >= 200 /\ status < 300 THEN BodyOf(id)
    ELSE ErrorBody

\* A policy that retries server and transport errors only, not 429.
ShouldRetryServerOnly(statusCode) ==
    statusCode >= 500 \/ statusCode = 0

\* A policy that retries every response that is not a success.
ShouldRetryAnyError(statusCode) ==
    statusCode >= 400 \/ statusCode = 0

\* WithRetryPolicy: a transport error shows as statusCode 0 with err # nil.
ShouldRetry(statusCode) ==
    statusCode = 429 \/ statusCode >= 500 \/ statusCode = 0

\* A client that makes two more attempts than it was configured for.
LastAttemptLate(n) == n + 1 > MaxRetryCount + 3

\* Attempt n is the last one WithMaxRetryCount(20) allows: the first attempt
\* and MaxRetryCount retries have been made.
LastAttempt(n) == n + 1 > MaxRetryCount + 1

\* The retry round tripper: attempt n of at most MaxRetryCount + 1; the
\* value is <<status of the response handed back, number of attempts made>>.
RECURSIVE RoundTrip(_, _)
RoundTrip(s, n) ==
    LET statusCode == StatusAt(s, n) IN
    IF ~ShouldRetry(statusCode) THEN <<statusCode, n>>
    ELSE IF LastAttempt(n) THEN <<statusCode, n>>
    ELSE RoundTrip(s, n + 1)

Ok == [pre |-> 200, k |-> 0, fin |-> 200]

NotFound == [pre |-> 404, k |-> 0, fin |-> 404]

Limited(k) == [pre |-> 429, k |-> k, fin |-> 200]

Down == [pre |-> 500, k |-> 0, fin |-> 500]

\* What the endpoint serves in the pipeline specification: each lookup
\* succeeds at once or fails on every attempt.
Scripts == {Ok, Down}

\* What it serves in the lookup specification: any status on the first k
\* attempts, k up to one more than the client will make, any status after.
Statuses == {0, 200, 304, 404, 429, 500, 503}

AllScripts == [pre : Statuses, k : 0..(MaxRetryCount + 2), fin : Statuses]

\* A validator that accepts every response.
FetchOkAny(status) == TRUE

\* requests.Fetch with the default validator and ToString(&response): the
\* body is copied into response only when the status is 2xx; any other
\* outcome is an error and leaves response the empty string.
FetchOk(status) == status >= 200 /\ status < 300

\* What the round tripper hands back under each script, from attempt 1.
Outcome == [s \in AllScripts |-> RoundTrip(s, 1)]

\* A Fetch that copies the body of the response before it validates it.
FetchKeepsBody(s, id) == ServedBody(Outcome[s][1], id)

\* requests.Fetch through the retrying client: the string left in response.
Fetch(s, id) ==
    LET st == Outcome[s][1] IN
    IF FetchOk(st) THEN ServedBody(st, id) ELSE EmptyString

----------------------------------------------------------------------------
VARIABLES
    justIDs,      \* flag -justIDs
    skip,         \* flags -skipMovie .. -skipCompany, by class
    mainPc,       \* position of main
    cls,          \* index in ClassOrder of the class main is at
    acquired,     \* classes whose snapshot file has been written
    dataFile,     \* by class: "absent", "open" or "closed" output data file
    exportErr,    \* error the running or last Export...Data returned, "" for nil
    dpc,          \* position of the driving routine inside Export...Data
    rowCount,     \* lines read of the identifier list
    chunkCount,   \* identifiers enqueued in the open chunk
    num,          \* results read by CloseWorkerPool in its loop
    jobs,         \* the chunk's job channel (its buffer)
    jobsClosed,   \* close(jobs) was called on it
    results,      \* the chunk's result channel (its buffer)
    idle,         \* goroutines of the chunk waiting in "range jobs"
    fetching,     \* goroutines of the chunk inside Fetch: the bag of their ids
    pushing,      \* goroutines of the chunk at "results <-": the bag of their results
    lingering,    \* goroutines of earlier chunks waiting in "range jobs"
    wbuf,         \* lines in the bufio.Writer not yet in the file
    out,          \* lines in the output data file of the current class
    cycles,       \* worker pools started by the current export
    chunkIds,     \* history: identifiers enqueued in the current chunk
    chunkItems,   \* history: results written for the current chunk
    outChunk,     \* history: for each line handed to the writer, its chunk
    sawMalformed, \* history: the scanner returned a line that does not parse
    pushed,       \* history: results sent on the chunk's result channel, in order
    override,     \* flag -exportDate
    now,          \* the clock: hours since the start of day 0, UTC
    setupAt,      \* history: the clock when NewMovieDB read it
    exportDate,   \* tmdb.ExportDate
    run,          \* which run of the program over the same output path this is
    dirDate,      \* the date in the name of the output directory, <<>> before it is set
    reqDate,      \* history: by class, the date in the name of the snapshot requested
    gets,         \* history: by class, the GET requests issued for its snapshot
    exportFile,   \* by class: the content of its snapshot file
    runErr,       \* the stage ValidateOutputPath or GetDailyExports failed at, "" for none
    order,        \* history: the classes whose Export...Data was called, in order
    workerCount   \* the worker count the program was built with

vars == <<justIDs, skip, mainPc, cls, acquired, dataFile, exportErr, dpc, rowCount,
          chunkCount, num, jobs, jobsClosed, results, idle, fetching, pushing, lingering,
          wbuf, out,
          cycles, chunkIds, chunkItems, outChunk, sawMalformed, pushed,
          override, now, setupAt, exportDate, run, dirDate, reqDate, gets, exportFile,
          runErr, order, workerCount>>

\* What the program is given and never changes: the flags, the clock, the run.
envVars == <<justIDs, skip, override, now, setupAt, exportDate, run, workerCount>>

\* What the Acquirer stage sets.
acqVars == <<dirDate, reqDate, gets, exportFile, runErr>>

mainVars == <<envVars, mainPc, cls, acquired, acqVars, order>>

poolVars == <<jobs, jobsClosed, results, idle, fetching, pushing, lingering>>

fileVars == <<dataFile, wbuf, out>>

histVars == <<cycles, chunkIds, chunkItems, outChunk, sawMalformed, pushed>>

CurrentClass == ClassOrder[cls]

\* The process is alive: os.Exit and the return of main end every goroutine.
Running == mainPc \notin {"done", "exit1"}

----------------------------------------------------------------------------
(* The Export Date.  A time is a count of hours, a date a count of days;   *)
(* the zero time.Time is hour 0 of day 0, and every run is later.          *)

At(day, hour) == day * 24 + hour

Hour(t) == t % 24

\* Format("2006-01-02") and Format("01_02_2006"): the date of a time, the
\* time of day dropped.
Date(t) == t \div 24

\* The value of -exportDate: the empty string, a date as YYYY-MM-DD, or text
\* that is no such date.
NoOverride == [text |-> "", day |-> 0]

OverrideTo(d) == [text |-> "date", day |-> d]

BadOverride == [text |-> "junk", day |-> 0]

\* time.Parse("2006-01-02", exportDate) with its error dropped: midnight of
\* the date, or the zero time when the text does not parse.
Parse(text) == IF text.text = "date" THEN At(text.day, 0) ELSE At(0, 0)

\* The test of the hour made with "<=".
BeforeExportIncl(utc) == Hour(utc) <= 8

\* "if utc.Hour() < 8".
BeforeExport(utc) == Hour(utc) < 8

\* A set-up that takes the clock when the override is not a date.
NewMovieDBFallsBack(flag, clock) ==
    IF flag.text # "date"
      THEN IF BeforeExport(clock) THEN clock - 24 ELSE clock
      ELSE Parse(flag)

\* NewMovieDB: the Export Date from the override and the clock.
NewMovieDB(flag, clock) ==
    IF flag.text = ""
      THEN IF BeforeExport(clock) THEN clock - 24 ELSE clock
      ELSE Parse(flag)

\* The instants the clock is looked at: before and after 08:00 and midnight
\* of two days.
Instants == {At(2, 7), At(2, 8), At(2, 23), At(3, 0), At(3, 7), At(3, 8)}

\* The snapshot the server publishes for a class at a run, the gzip stream
\* it sends, and what the gzip reader gives back.
Snapshot(c, r) == <<c, r>>

Gzip(data) == [gz |-> data]

Gunzip(stream) == stream.gz

\* A file that does not exist, and a file os.WriteFile truncated and failed
\* to fill.
NoFile == <<>>

Truncated == <<"truncated">>

----------------------------------------------------------------------------
(* The inputs of a run: the flags, and the state before main's first call. *)

InitPool(flags, just, flag, clock, n) ==
    /\ workerCount = n
    /\ justIDs = just
    /\ override = flag
    /\ now = clock
    /\ setupAt = clock
    /\ exportDate = NewMovieDB(flag, clock)
    /\ run = 1
    /\ dirDate = <<>>
    /\ reqDate = [c \in Classes |-> <<>>]
    /\ gets = [c \in Classes |-> 0]
    /\ exportFile = [c \in Classes |-> NoFile]
    /\ runErr = ""
    /\ order = <<>>
    /\ pushed = <<>>
    /\ skip = flags
    /\ mainPc = "validate"
    /\ cls = 1
    /\ acquired = {}
    /\ dataFile = [c \in Classes |-> "absent"]
    /\ exportErr = ""
    /\ dpc = "none"
    /\ rowCount = 0
    /\ chunkCount = 0
    /\ num = 0
    /\ jobs = <<>>
    /\ jobsClosed = FALSE
    /\ results = <<>>
    /\ idle = 0
    /\ fetching = EmptyBag
    /\ pushing = EmptyBag
    /\ lingering = 0
    /\ wbuf = <<>>
    /\ out = <<>>
    /\ cycles = 0
    /\ chunkIds = <<>>
    /\ chunkItems = <<>>
    /\ outChunk = <<>>
    /\ sawMalformed = FALSE

\* The program as it is built: numWorkers workers.
InitState(flags, just, flag, clock) == InitPool(flags, just, flag, clock, numWorkers)

\* The pipeline specification: one class is exported, the others skipped.
OnlyMovie == [c \in Classes |-> c # "Movie"]

Init == InitState(OnlyMovie, FALSE, NoOverride, At(2, 8))

\* The run specification: every setting of the flags.
RunInit ==
    \E flags \in [Classes -> BOOLEAN], just \in BOOLEAN :
        InitState(flags, just, NoOverride, At(2, 8))

----------------------------------------------------------------------------
(* main *)

exportVars == <<exportErr, dpc, rowCount, chunkCount, num>>

\* The date in "export_date=%s", formatted from tmdb.ExportDate.
DirDate == Date(exportDate)

\* A main that goes on after ValidateOutputPath returned an error.
AfterValidateAlways(ok) == "acquire"

\* "if err := tmdb.ValidateOutputPath(*outputPath); err != nil": exit status
\* 1 on an error.
AfterValidate(ok) == IF ok THEN "acquire" ELSE "exit1"

\* tmdb.ValidateOutputPath: filepath.Abs or MkdirAll may fail; OutputPath is
\* set when they do not.
ValidateOutputPath ==
    /\ mainPc = "validate"
    /\ \E ok \in BOOLEAN :
         /\ mainPc' = AfterValidate(ok)
         /\ dirDate' = IF ok THEN <<DirDate>> ELSE dirDate
         /\ runErr' = IF ok THEN runErr ELSE "path"
    /\ UNCHANGED <<envVars, cls, acquired, reqDate, gets, exportFile, order, exportVars,
                   poolVars, fileVars, histVars>>

\* The date in the name of the snapshot requested, formatted from
\* tmdb.ExportDate; and the same read off the clock at each request.
RequestDateNow == Date(NewMovieDB(override, now))

RequestDate == Date(exportDate)

\* os.WriteFile appending to what the file held.
WriteFileAppend(old, data) == old \o data

\* os.WriteFile(dailyExport.ExportFile, data, 0600): the file is created or
\* truncated and holds the data.
WriteFile(old, data) == data

\* One iteration of the loop of GetDailyExports.  The map is ranged over in
\* an order the Go runtime chooses.  The snapshot file is written last.
AcquireOk(c) ==
    /\ mainPc = "acquire"
    /\ c \notin acquired
    /\ acquired' = acquired \cup {c}
    /\ gets' = [gets EXCEPT ![c] = @ + 1]
    /\ reqDate' = [reqDate EXCEPT ![c] = <<RequestDate>>]
    /\ exportFile' = [exportFile EXCEPT
                        ![c] = WriteFile(@, Gunzip(Gzip(Snapshot(c, run))))]
    /\ UNCHANGED <<envVars, mainPc, cls, dirDate, runErr, order, exportVars, poolVars,
                   fileVars, histVars>>

\* The stages of one iteration that can fail: the request (transport error
\* or a status that is not 2xx), gzip.NewReader, io.ReadAll, os.WriteFile.
Stages == {"request", "gzip", "read", "writeFile"}

\* A loop that logs the error of an iteration and goes on.
AfterAcquireFailGoOn == "acquire"

\* "return fmt.Errorf(...)" out of the loop, then os.Exit(1) in main.
AfterAcquireFail == "exit1"

\* The request, the gzip reader, the read or the write failed: the error is
\* returned at once and main exits with status 1.  A write that failed may
\* have truncated the snapshot file.
AcquireFail(c) ==
    /\ mainPc = "acquire"
    /\ c \notin acquired
    /\ mainPc' = AfterAcquireFail
    /\ gets' = [gets EXCEPT ![c] = @ + 1]
    /\ reqDate' = [reqDate EXCEPT ![c] = <<RequestDate>>]
    /\ \E stage \in Stages, left \in {exportFile[c], Truncated} :
         /\ stage # "writeFile" => left = exportFile[c]
         /\ runErr' = stage
         /\ exportFile' = [exportFile EXCEPT ![c] = left]
    /\ UNCHANGED <<envVars, cls, acquired, dirDate, order, exportVars, poolVars,
                   fileVars, histVars>>

\* A range that passes over the classes whose skip flag is set.
AllAcquiredUnskipped == {c \in Classes : ~skip[c]} \subseteq acquired

\* The range left after its first entry.
AllAcquiredSome == acquired # {}

\* The range over tmdb.DailyExports has visited every entry.
AllAcquired == acquired = Classes

\* A main without the test of justIDs.
IdsOnlyNever == FALSE

\* "if !*justIDs" is false.
IdsOnly == justIDs

\* GetDailyExports returned nil; main tests justIDs.
AcquireDone ==
    /\ mainPc = "acquire"
    /\ AllAcquired
    /\ mainPc' = IF IdsOnly THEN "done" ELSE "classes"
    /\ UNCHANGED <<envVars, cls, acquired, acqVars, order, exportVars, poolVars, fileVars,
                   histVars>>

\* A main without the tests of the skip flags.
SkippedNever(c) == FALSE

\* "if !*skipX" is false.
Skipped(c) == skip[c]

\* The class is passed over.
SkipClass ==
    /\ mainPc = "classes"
    /\ cls <= NumClasses
    /\ Skipped(CurrentClass)
    /\ cls' = cls + 1
    /\ UNCHANGED <<envVars, mainPc, acquired, acqVars, order, exportVars, poolVars,
                   fileVars, histVars>>

\* After the seventh class main logs "Done!" and returns.
MainDone ==
    /\ mainPc = "classes"
    /\ cls > NumClasses
    /\ mainPc' = "done"
    /\ UNCHANGED <<envVars, cls, acquired, acqVars, order, exportVars, poolVars, fileVars,
                   histVars>>

\* The error of an export ignored by main.
FailedNever(err) == FALSE

\* "if err := tmdb.Export...Data(); err != nil".
Failed(err) == err # ""

\* Export...Data returned: on an error main logs it and exits with status 1.
ExportReturned ==
    /\ mainPc = "export"
    /\ dpc = "returned"
    /\ IF ~Failed(exportErr)
         THEN mainPc' = "classes" /\ cls' = cls + 1
         ELSE mainPc' = "exit1" /\ cls' = cls
    /\ UNCHANGED <<envVars, acquired, acqVars, order, exportVars, poolVars, fileVars,
                   histVars>>

----------------------------------------------------------------------------
(* Export...Data: the driving routine *)

\* Lines handed to the writer and kept: those in the file, then those still
\* in the writer's buffer.
Written == out \o wbuf

\* The deferred calls run with wf.Close before w.Flush: what the writer
\* still holds cannot be written any more.
ReturnCloseFirst(err) ==
    /\ dpc' = "returned"
    /\ exportErr' = err
    /\ out' = out
    /\ wbuf' = <<>>
    /\ dataFile' = [dataFile EXCEPT ![CurrentClass] = "closed"]

\* Deferred calls that remove the output data file when the identifier list
\* could not be opened.
ReturnRemovesFile(err) ==
    /\ dpc' = "returned"
    /\ exportErr' = err
    /\ out' = IF err = "write" THEN out ELSE Written
    /\ wbuf' = <<>>
    /\ dataFile' = [dataFile EXCEPT
                      ![CurrentClass] = IF err = "open" THEN "absent" ELSE "closed"]

\* The deferred calls of Export...Data, in the order they run: rf.Close,
\* w.Flush (what is buffered goes to the file; after a failed write the
\* writer keeps its error and writes nothing more), wf.Close.
Return(err) ==
    /\ dpc' = "returned"
    /\ exportErr' = err
    /\ out' = IF err = "write" THEN out ELSE Written
    /\ wbuf' = <<>>
    /\ dataFile' = [dataFile EXCEPT ![CurrentClass] = "closed"]

\* main calls Export...Data of a class that is not skipped; os.Create makes
\* (or truncates) the output data file, or fails before anything is deferred.
ExportCreate ==
    /\ mainPc = "classes"
    /\ cls <= NumClasses
    /\ ~Skipped(CurrentClass)
    /\ mainPc' = "export"
    /\ order' = Append(order, CurrentClass)
    /\ pushed' = <<>>
    /\ rowCount' = 0
    /\ chunkCount' = 0
    /\ num' = 0
    /\ cycles' = 0
    /\ chunkIds' = <<>>
    /\ chunkItems' = <<>>
    /\ outChunk' = <<>>
    /\ out' = <<>>
    /\ wbuf' = <<>>
    /\ \E ok \in BOOLEAN :
         IF ok
           THEN /\ dpc' = "open"
                /\ exportErr' = ""
                /\ dataFile' = [dataFile EXCEPT ![CurrentClass] = "open"]
           ELSE /\ dpc' = "returned"
                /\ exportErr' = "create"
                /\ dataFile' = dataFile
    /\ UNCHANGED <<envVars, cls, acquired, acqVars, poolVars, sawMalformed>>

\* os.Open of the identifier list, then the scanner is set up.
OpenList ==
    /\ mainPc = "export"
    /\ dpc = "open"
    /\ \E ok \in BOOLEAN :
         IF ok
           THEN /\ dpc' = "scan"
                /\ UNCHANGED <<exportErr, fileVars>>
           ELSE Return("open")
    /\ UNCHANGED <<mainVars, rowCount, chunkCount, num, poolVars, histVars>>

\* A channel that hands out the value sent last first.
EnqueueFront(q, x) == <<x>> \o q

\* A send on a buffered channel: the value joins the buffer at the back.
Enqueue(q, x) == Append(q, x)

\* A pool started for every line.
PoolStartsAlways == TRUE

\* "Start workers if new Chunk".
PoolStarts == chunkCount = 0

\* Channels made one place smaller than a chunk.
CapacitySmall == chunkSize - 1

\* make(chan int64, chunkSize) and make(chan *string, chunkSize).
Capacity == chunkSize

\* A pool that takes in the goroutines left over from the chunk before.
PoolSizeWithOld == numWorkers + idle

\* The loop that starts the goroutines starting two for each count.
PoolSizeDouble == 2 * workerCount

\* The loop that starts the goroutines run with "<=".
PoolSizeOver == numWorkers + 1

\* for num := int64(0); num < numWorkers; num++ { go RequestWorker(...) }
PoolSize == workerCount

\* The chunk closed one identifier late.
ChunkFullLate(n) == n = chunkSize + 1

\* "if chunkCount == chunkSize", after the increment.
ChunkFull(n) == n = chunkSize

\* The test after the scan loop left out: a partial chunk is never drained.
TailNever == FALSE

\* "if chunkCount > 0" after the scan loop.
TailPending == chunkCount > 0

\* The loop of CloseWorkerPool waiting for one result more than was sent for.
DrainCountOver == chunkCount + 1

\* The loop of CloseWorkerPool stopping one result short.
DrainCountShort == chunkCount - 1

\* The bound of the loop of CloseWorkerPool: its parameter chunkCount.
DrainCount == chunkCount

\* close(jobs) at the head of CloseWorkerPool, then its loop starts at 0.
CloseJobs(last) ==
    /\ jobsClosed' = TRUE
    /\ num' = 0
    /\ dpc' = IF last THEN "lastDrain" ELSE "drain"

\* One line kind of the identifier list: a record with an id, a JSON object
\* without id (json.Unmarshal leaves Id = 0), or text that is not JSON.
LineKinds == {"id", "noid", "malformed"}

\* A json.Unmarshal whose error is dropped.
UnmarshalsAll(kind) == TRUE

\* A json.Unmarshal that demands the id field.
UnmarshalsWithId(kind) == kind = "id"

\* json.Unmarshal returns nil.
Unmarshals(kind) == kind # "malformed"

\* A scan loop that sends the identifier of the line after the one read.
IdOfNext(kind, line) == IF kind = "id" THEN line + 1 ELSE 0

\* Identifiers are opaque to the pipeline; the record on line i carries i, so
\* every job of a list is told apart from every other.
IdOf(kind, line) == IF kind = "id" THEN line ELSE 0

\* What is sent on jobs is the id; the chunk it is sent in is history.
Job(id) == [id |-> id, chunk |-> IF PoolStarts THEN cycles + 1 ELSE cycles]

\* One iteration of the scan loop on a line: the pool is started when the
\* chunk is new (fresh channels and PoolSize goroutines; the goroutines of
\* the chunk before keep the channels they were given), the line is
\* unmarshalled, its id is sent on jobs, and the pool is closed when the
\* chunk is full.
ScanLine(kind, limit) ==
    /\ mainPc = "export"
    /\ dpc = "scan"
    /\ rowCount < limit
    /\ LET started == PoolStarts
           q == IF started THEN <<>> ELSE jobs
           id == IdOf(kind, rowCount + 1)
       IN
       /\ IF started
            THEN /\ idle' = PoolSize
                 /\ fetching' = EmptyBag
                 /\ pushing' = EmptyBag
                 /\ lingering' = lingering + idle
                 /\ results' = <<>>
                 /\ cycles' = cycles + 1
            ELSE UNCHANGED <<idle, fetching, pushing, lingering, results, cycles>>
       /\ sawMalformed' = (sawMalformed \/ kind = "malformed")
       /\ chunkItems' = IF started THEN <<>> ELSE chunkItems
       /\ pushed' = IF started THEN <<>> ELSE pushed
       /\ IF ~Unmarshals(kind)
            THEN /\ Return("unmarshal")
                 /\ jobs' = q
                 /\ jobsClosed' = IF started THEN FALSE ELSE jobsClosed
                 /\ chunkIds' = IF started THEN <<>> ELSE chunkIds
                 /\ UNCHANGED <<rowCount, chunkCount, num>>
            ELSE /\ Len(q) < Capacity
                 /\ jobs' = Enqueue(q, Job(id))
                 /\ chunkIds' = Append(IF started THEN <<>> ELSE chunkIds, id)
                 /\ chunkCount' = chunkCount + 1
                 /\ rowCount' = rowCount + 1
                 /\ IF ChunkFull(chunkCount + 1)
                      THEN CloseJobs(FALSE)
                      ELSE /\ jobsClosed' = IF started THEN FALSE ELSE jobsClosed
                           /\ UNCHANGED <<num, dpc>>
                 /\ UNCHANGED <<exportErr, fileVars>>
    /\ UNCHANGED <<mainVars, outChunk>>

\* r.Scan() returned false: a partial chunk is closed and drained, then the
\* export returns nil.
ScanEnd ==
    /\ mainPc = "export"
    /\ dpc = "scan"
    /\ IF TailPending
         THEN /\ CloseJobs(TRUE)
              /\ UNCHANGED <<exportErr, fileVars>>
         ELSE /\ Return("")
              /\ UNCHANGED <<jobsClosed, num>>
    /\ UNCHANGED <<mainVars, rowCount, chunkCount, jobs, results, idle, fetching, pushing,
                   lingering, histVars>>

\* One iteration of the loop of CloseWorkerPool: a result is received and
\* handed to the writer as a line.  The writer passes its buffer on to the
\* file when it is full; a failed write ends the export.  After the last
\* result of the chunk the loop ends; after the last chunk the export
\* returns nil.
Draining == dpc \in {"drain", "lastDrain"}

\* fmt.Sprintf("%s\n", *response): one line holding the response.
LineOf(item) == item.body

DrainOne ==
    /\ mainPc = "export"
    /\ Draining
    /\ num < DrainCount
    /\ results # <<>>
    /\ LET item == Head(results)
           line == LineOf(item)
           done == num + 1 = DrainCount
       IN
       /\ results' = Tail(results)
       /\ chunkItems' = Append(chunkItems, item)
       /\ \E wr \in {"buffered", "flushed", "failed"} :
            IF wr = "failed"
              THEN /\ Return("write")
                   /\ UNCHANGED <<num, chunkCount, outChunk>>
              ELSE /\ num' = num + 1
                   /\ outChunk' = Append(outChunk, item.chunk)
                   /\ IF done /\ dpc = "lastDrain"
                        THEN /\ dpc' = "returned"
                             /\ exportErr' = ""
                             /\ out' = Written \o <<line>>
                             /\ wbuf' = <<>>
                             /\ dataFile' = [dataFile EXCEPT ![CurrentClass] = "closed"]
                             /\ chunkCount' = chunkCount
                        ELSE /\ dpc' = IF done THEN "scan" ELSE dpc
                             /\ chunkCount' = IF done THEN 0 ELSE chunkCount
                             /\ out' = IF wr = "flushed" THEN Written \o <<line>> ELSE out
                             /\ wbuf' = IF wr = "flushed" THEN <<>> ELSE Append(wbuf, line)
                             /\ UNCHANGED <<exportErr, dataFile>>
    /\ UNCHANGED <<mainVars, rowCount, jobs, jobsClosed, idle, fetching, pushing, lingering,
                   cycles, chunkIds, sawMalformed, pushed>>

----------------------------------------------------------------------------
(* RequestWorker.  The goroutines of a pool run the same code on the same  *)
(* two channels and carry no identity, so a pool is the number of them at  *)
(* each point of the loop.                                                 *)

One(x) == SetToBag({x})

\* for id := range jobs: a job is received.
WorkerTake ==
    /\ Running
    /\ idle > 0
    /\ jobs # <<>>
    /\ idle' = idle - 1
    /\ fetching' = fetching (+) One(Head(jobs))
    /\ jobs' = Tail(jobs)
    /\ UNCHANGED <<mainVars, exportVars, jobsClosed, results, pushing, lingering,
                   fileVars, histVars>>

\* The result of one call of the lookup endpoint: the string sent on results;
\* the job, the script it was served and the attempts made are history.
Lookup(s, job) ==
    [body |-> Fetch(s, job.id), id |-> job.id, chunk |-> job.chunk, script |-> s,
     attempts |-> Outcome[s][2]]

\* A worker that goes back to the range after a failed Fetch.
SendsSuccess(item) == item.body # EmptyString

\* "results <- &response" is reached whatever Fetch returned: an error is
\* logged and dropped.
Sends(item) == TRUE

\* Fetch returns, after its retries.
WorkerReturn(job, served) ==
    /\ Running
    /\ BagIn(job, fetching)
    /\ fetching' = fetching (-) One(job)
    /\ \E s \in served :
         IF Sends(Lookup(s, job))
           THEN pushing' = pushing (+) One(Lookup(s, job)) /\ idle' = idle
           ELSE pushing' = pushing /\ idle' = idle + 1
    /\ UNCHANGED <<mainVars, exportVars, jobs, jobsClosed, results, lingering,
                   fileVars, histVars>>

\* A worker that hands its line to the writer itself instead of sending it.
WorkerPushWrites(item) ==
    /\ Running
    /\ BagIn(item, pushing)
    /\ wbuf' = Append(wbuf, LineOf(item))
    /\ pushed' = Append(pushed, item)
    /\ pushing' = pushing (-) One(item)
    /\ idle' = idle + 1
    /\ UNCHANGED <<mainVars, exportVars, jobs, jobsClosed, results, fetching, lingering,
                   dataFile, out, cycles, chunkIds, chunkItems, outChunk, sawMalformed>>

\* results <- &response: blocks while the channel is full; then the loop
\* goes back to the range.
WorkerPush(item) ==
    /\ Running
    /\ BagIn(item, pushing)
    /\ Len(results) < Capacity
    /\ results' = Enqueue(results, item)
    /\ pushed' = Append(pushed, item)
    /\ pushing' = pushing (-) One(item)
    /\ idle' = idle + 1
    /\ UNCHANGED <<mainVars, exportVars, jobs, jobsClosed, fetching, lingering,
                   fileVars, cycles, chunkIds, chunkItems, outChunk, sawMalformed>>

\* A range loop that ends as soon as the channel is empty, closed or not.
WorkerExitEarly ==
    /\ Running
    /\ idle > 0
    /\ jobs = <<>>
    /\ idle' = idle - 1
    /\ UNCHANGED <<mainVars, exportVars, jobs, jobsClosed, results, fetching, pushing,
                   lingering, fileVars, histVars>>

\* The range loop ends when jobs is closed and empty.
WorkerExit ==
    /\ Running
    /\ idle > 0
    /\ jobs = <<>>
    /\ jobsClosed
    /\ idle' = idle - 1
    /\ UNCHANGED <<mainVars, exportVars, jobs, jobsClosed, results, fetching, pushing,
                   lingering, fileVars, histVars>>

\* A goroutine of an earlier chunk finds its channel closed and returns.
LingeringExit ==
    /\ Running
    /\ lingering > 0
    /\ lingering' = lingering - 1
    /\ UNCHANGED <<mainVars, exportVars, jobs, jobsClosed, results, idle, fetching, pushing,
                   fileVars, histVars>>

----------------------------------------------------------------------------
(* The steps of the program on lists of at most limit lines and an         *)
(* endpoint that serves the scripts of served.                             *)

Step(limit, served) ==
    \/ ValidateOutputPath
    \/ \E c \in Classes : AcquireOk(c)
    \/ \E c \in Classes : AcquireFail(c)
    \/ AcquireDone
    \/ SkipClass
    \/ MainDone
    \/ ExportReturned
    \/ ExportCreate
    \/ OpenList
    \/ \E kind \in LineKinds : ScanLine(kind, limit)
    \/ ScanEnd
    \/ DrainOne
    \/ WorkerTake
    \/ \E job \in BagToSet(fetching) : WorkerReturn(job, served)
    \/ \E item \in BagToSet(pushing) : WorkerPush(item)
    \/ WorkerExit
    \/ LingeringExit

\* The pipeline of one class on lists of up to MaxLines lines.
Next == Step(MaxLines, Scripts)

Spec == Init /\ [][Next]_vars

\* The whole run under every setting of the flags, on lists of at most one
\* line each.
RunNext == Step(1, Scripts)

RunSpec == RunInit /\ [][RunNext]_vars

\* One lookup per class under every script: two classes are exported, on
\* lists of at most one line.
LookupInit ==
    InitState([c \in Classes |-> c \notin {"Movie", "TV Series"}], FALSE, NoOverride, At(2, 8))

LookupNext == Step(1, AllScripts)

LookupSpec == LookupInit /\ [][LookupNext]_vars

\* The pipeline of two classes in a row on lists of up to MaxLines lines;
\* every lookup succeeds (what a lookup returns changes no step of a worker).
PairNext == Step(MaxLines, {Ok})

PairSpec == LookupInit /\ [][PairNext]_vars

\* The pipeline of one class on lists of up to MaxLines lines whose lookups
\* all succeed, where every goroutine of a pool that can take a step
\* eventually takes one (every lookup returns, every send and every return
\* from the range happens); nothing is assumed of main's goroutine.
WorkerFairness ==
    /\ WF_vars(\E job \in BagToSet(fetching) : WorkerReturn(job, {Ok}))
    /\ WF_vars(\E item \in BagToSet(pushing) : WorkerPush(item))
    /\ WF_vars(WorkerExit)
    /\ WF_vars(LingeringExit)

WorkerFairSpec == Init /\ [][PairNext]_vars /\ WorkerFairness

\* The steps of main's goroutine, in main and inside Export...Data.
MainGoroutine(limit) ==
    \/ ValidateOutputPath
    \/ \E c \in Classes : AcquireOk(c)
    \/ \E c \in Classes : AcquireFail(c)
    \/ AcquireDone
    \/ SkipClass
    \/ MainDone
    \/ ExportReturned
    \/ ExportCreate
    \/ OpenList
    \/ \E kind \in LineKinds : ScanLine(kind, limit)
    \/ ScanEnd
    \/ DrainOne

\* The same pipeline under fair scheduling: main's goroutine and the
\* goroutines of the pools each take a step eventually when they can.
FairSpec ==
    /\ Init /\ [][PairNext]_vars
    /\ WF_vars(MainGoroutine(MaxLines))
    /\ WF_vars(WorkerTake)
    /\ WorkerFairness

\* The pipeline of one class as built with a worker count of 1, on lists of
\* up to MaxLines lines whose lookups all succeed.
SingleInit == InitPool(OnlyMovie, FALSE, NoOverride, At(2, 8), 1)

SingleSpec == SingleInit /\ [][PairNext]_vars

\* Time passes: the clock is at a later instant.
Tick ==
    /\ \E t \in Instants : t > now /\ now' = t
    /\ UNCHANGED <<justIDs, skip, override, setupAt, exportDate, run, mainPc, cls,
                   acquired, acqVars, order, exportVars, poolVars, fileVars, histVars,
                   workerCount>>

\* The program is run again with the same flags, in its ids-only mode, after
\* a run that ended with status 0, at a time that gives the same Export
\* Date and so the same output directory: a new process, the files kept.
Restart ==
    /\ mainPc = "done"
    /\ justIDs
    /\ run < MaxRuns
    /\ Date(NewMovieDB(override, now)) = Date(exportDate)
    /\ run' = run + 1
    /\ mainPc' = "validate"
    /\ setupAt' = now
    /\ exportDate' = NewMovieDB(override, now)
    /\ acquired' = {}
    /\ dirDate' = <<>>
    /\ reqDate' = [c \in Classes |-> <<>>]
    /\ gets' = [c \in Classes |-> 0]
    /\ runErr' = ""
    /\ UNCHANGED <<justIDs, skip, override, now, cls, exportFile, order, exportVars,
                   poolVars, fileVars, histVars, workerCount>>

\* The values of -exportDate tried.
Overrides == {NoOverride, OverrideTo(5), BadOverride}

\* The Acquirer stage alone (ids-only runs), started at any instant of the
\* first day with any override, while the clock runs, and run again.
AcquirerInit ==
    \E flag \in Overrides, clock \in {At(2, 7), At(2, 8), At(2, 23)} :
        InitState([c \in Classes |-> FALSE], TRUE, flag, clock)

AcquirerNext ==
    \/ ValidateOutputPath
    \/ \E c \in Classes : AcquireOk(c)
    \/ \E c \in Classes : AcquireFail(c)
    \/ AcquireDone
    \/ Tick
    \/ Restart

AcquirerSpec == AcquirerInit /\ [][AcquirerNext]_vars

----------------------------------------------------------------------------
(* Properties *)

Range(q) == {q[i] : i \in 1..Len(q)}

RECURSIVE BagOfSeq(_)
BagOfSeq(q) == IF q = <<>> THEN EmptyBag ELSE One(Head(q)) (+) BagOfSeq(Tail(q))

\* The results of the current chunk that exist: held by a goroutine, in the
\* result channel, or received by CloseWorkerPool.
AllItems == BagToSet(pushing) \cup Range(results) \cup Range(chunkItems)

\* The lines the writer holds for the results received in the current chunk
\* (no write has failed): the last Len(chunkItems) lines handed to it.
ChunkLines == SubSeq(Written, Len(Written) - Len(chunkItems) + 1, Len(Written))

\* The export has returned nil.
ReturnedOk == dpc = "returned" /\ exportErr = ""

\* Goroutines of the current pool that have not returned.
PoolAlive == idle + BagCardinality(fetching) + BagCardinality(pushing)

ChunkDone ==
    /\ cycles > 0
    /\ exportErr = ""
    /\ (dpc = "scan" /\ chunkCount = 0) \/ dpc = "returned"

\* While no write has failed, the lines the writer holds for the chunk are
\* the results received for it, in the order they were received.
LinesAsReceived ==
    exportErr # "write" =>
        /\ Len(chunkItems) <= Len(Written)
        /\ \A i \in 1..Len(chunkItems) : ChunkLines[i] = chunkItems[i].body

\* C2: a lookup that was served status 500 on every attempt made all
\* MaxRetryCount + 1 attempts and its result is the empty string; the line
\* written for it is empty, and when its chunk is drained exactly one result
\* was received for its identifier.  No goroutine of an open pool is lost,
\* so the workers go on taking jobs.  The export returns an error only for a
\* failed create, open or write or for a line that does not parse, and main
\* exits with status 1 after an export only on such an error.
FailedLookupIsEmptyLine ==
    /\ \A item \in AllItems :
         item.script = Down =>
             item.body = EmptyString /\ item.attempts = MaxRetryCount + 1
    /\ exportErr # "write" =>
         \A i \in 1..Len(chunkItems) :
             chunkItems[i].script = Down => ChunkLines[i] = EmptyString
    /\ ChunkDone =>
         \A i \in 1..Len(chunkItems) :
             (chunkItems[i].script = Down /\ chunkItems[i].id # 0) =>
                 Cardinality({j \in 1..Len(chunkItems) :
                                 chunkItems[j].id = chunkItems[i].id}) = 1
    /\ (cycles > 0 /\ ~jobsClosed) => PoolAlive = numWorkers
    /\ exportErr \in {"", "create", "open", "unmarshal", "write"}
    /\ exportErr = "unmarshal" => sawMalformed
    /\ (mainPc = "exit1" /\ dpc = "returned") => exportErr # ""

\* A full chunk whose lookups all failed (more lookups than workers, so a
\* worker took a further job after a failure) was written as empty lines and
\* the run ended without an error.
FailedLookupIsEmptyLineWitness ==
    /\ mainPc = "done"
    /\ exportErr = ""
    /\ rowCount = chunkSize
    /\ Len(out) = chunkSize
    /\ \A i \in 1..Len(out) : out[i] = EmptyString
    /\ Len(chunkItems) = chunkSize
    /\ \A i \in 1..Len(chunkItems) : chunkItems[i].script = Down /\ chunkItems[i].id # 0

\* The endpoint serves 429 on the first k attempts and 200 after them.
LimitedThenOk(s) == s.pre = 429 /\ s.fin = 200

\* C3: a lookup served 429 on its first k attempts and 200 on attempt k + 1,
\* for every k the retries allow (k <= MaxRetryCount, which covers every k
\* below the cap), made exactly k + 1 attempts and returned the body of the
\* 200 response, which is not empty; the line written for it is that body.
RetriedUntilOk ==
    /\ \A item \in AllItems :
         (LimitedThenOk(item.script) /\ item.script.k <= MaxRetryCount) =>
             /\ item.attempts = item.script.k + 1
             /\ item.body = BodyOf(item.id)
             /\ item.body # EmptyString
    /\ exportErr # "write" =>
         \A i \in 1..Len(chunkItems) :
             (LimitedThenOk(chunkItems[i].script)
                 /\ chunkItems[i].script.k <= MaxRetryCount) =>
                 ChunkLines[i] = BodyOf(chunkItems[i].id)

\* An export returned nil whose lookup was served 429 on MaxRetryCount - 1
\* attempts and then 200: the file holds the body of the 200 response.
RetriedUntilOkWitness ==
    /\ ReturnedOk
    /\ Len(chunkItems) = 1
    /\ chunkItems[1].script = Limited(MaxRetryCount - 1)
    /\ chunkItems[1].attempts = MaxRetryCount
    /\ out = <<BodyOf(1)>>

\* How often identifier x occurs in a sequence of identifiers, in a sequence
\* of jobs or results, and in a bag of jobs or results.
CountIn(q, x) == Cardinality({i \in 1..Len(q) : q[i] = x})

CountOf(q, x) == Cardinality({i \in 1..Len(q) : q[i].id = x})

CountHeld(B, x) ==
    BagCardinality([e \in {f \in BagToSet(B) : f.id = x} |-> CopiesIn(e, B)])

\* How often identifier x occurs at the stages of the pipeline together.
StageCount(x) ==
    CountOf(jobs, x) + CountHeld(fetching, x) + CountHeld(pushing, x)
        + CountOf(results, x) + CountOf(chunkItems, x)

\* C4: at every moment the identifiers submitted in the chunk are, as a
\* multiset, those in the job queue, being looked up, in the result queue
\* and received by the writer's loop; every result belongs to the current
\* chunk; the lines held by the writer for the chunk are the results
\* received.  When the chunk is drained, the results received are for the
\* identifiers submitted in it, each as often as it was submitted, and the
\* lines written for the chunk are, as a multiset, the lookup results of
\* those identifiers.
ChunkConserved ==
    /\ \A x \in 0..rowCount : StageCount(x) = CountIn(chunkIds, x)
    /\ \A e \in Range(jobs) \cup BagToSet(fetching) \cup AllItems : e.id \in 0..rowCount
    /\ \A item \in AllItems : item.chunk = cycles
    /\ LinesAsReceived
    /\ ChunkDone =>
         /\ Len(chunkItems) = Len(chunkIds)
         /\ \A x \in 0..rowCount : CountOf(chunkItems, x) = CountIn(chunkIds, x)
         /\ BagOfSeq(ChunkLines)
              = BagOfSeq([i \in 1..Len(chunkItems) |->
                             Fetch(chunkItems[i].script, chunkItems[i].id)])

\* A full chunk was drained whose results arrived in another order than the
\* identifiers were submitted, one of them failed and one successful.
ChunkConservedWitness ==
    /\ ChunkDone
    /\ dpc = "scan"
    /\ Len(chunkItems) = chunkSize
    /\ chunkItems[1].id > chunkItems[2].id
    /\ \E i, j \in 1..Len(chunkItems) :
         chunkItems[i].body = EmptyString /\ chunkItems[j].body # EmptyString

\* C5: the lines handed to the writer are in the order of their chunks: the
\* p-th line belongs to chunk ceil(p / chunkSize), so every line of chunk k
\* precedes every line of chunk k + 1; the results not yet written belong to
\* the chunk started last; the file and the writer's buffer hold the lines in
\* the order they were handed over.
ChunksSequential ==
    /\ \A p, q \in 1..Len(outChunk) : p < q => outChunk[p] <= outChunk[q]
    /\ \A p \in 1..Len(outChunk) : outChunk[p] = ((p - 1) \div chunkSize) + 1
    /\ \A item \in BagToSet(pushing) \cup Range(results) : item.chunk = cycles
    /\ \A p \in 1..Len(outChunk) : outChunk[p] <= cycles
    /\ exportErr # "write" => Len(Written) = Len(outChunk)
    /\ Len(out) <= Len(outChunk)

\* A list of one full chunk and one more line was exported.
ChunksSequentialWitness ==
    /\ ReturnedOk
    /\ Len(out) = chunkSize + 1
    /\ outChunk = [p \in 1..(chunkSize + 1) |-> IF p <= chunkSize THEN 1 ELSE 2]

\* The classes main comes to after the one it is at.
LaterClasses == {ClassOrder[i] : i \in (cls + 1)..NumClasses}

CyclesExact ==
    /\ exportErr = "" => cycles = (rowCount + chunkSize - 1) \div chunkSize
    /\ (dpc = "scan" /\ chunkCount > 0) => (PoolAlive = numWorkers /\ ~jobsClosed)
    /\ ReturnedOk =>
         /\ cycles > 0 => jobsClosed
         /\ jobs = <<>> /\ results = <<>>
         /\ fetching = EmptyBag /\ pushing = EmptyBag

\* The second pool of a list of chunkSize + 1 lines is being drained: its
\* one job is being looked up and the other goroutines of the full pool have
\* nothing to take.
CyclesExactWitness ==
    /\ rowCount = chunkSize + 1
    /\ cycles = 2
    /\ dpc = "lastDrain"
    /\ chunkCount = 1
    /\ BagCardinality(fetching) = 1
    /\ idle = numWorkers - 1

\* The export is at a point where no chunk is open: before its first chunk,
\* between two chunks, or returned nil.
Boundary ==
    \/ dpc \in {"none", "open"}
    \/ dpc = "scan" /\ chunkCount = 0
    \/ ReturnedOk

\* C8: at most numWorkers lookups are in flight, and at most numWorkers
\* goroutines of the current pool are alive.  Where a pool is started (at a
\* chunk boundary and at the boundary between two classes) no lookup is in
\* flight and no job or result is pending: the goroutines of the pool before
\* are all waiting on their closed job channel or have returned.
InFlightBounded ==
    /\ BagCardinality(fetching) <= numWorkers
    /\ PoolAlive <= numWorkers
    /\ Boundary =>
         /\ fetching = EmptyBag /\ pushing = EmptyBag
         /\ jobs = <<>> /\ results = <<>>

\* In the second class, a pool is started while goroutines of the pool
\* before have not returned, and every worker of the new pool is inside a
\* lookup.
InFlightBoundedWitness ==
    /\ cls = 2
    /\ mainPc = "export"
    /\ lingering > 0
    /\ jobs # <<>>
    /\ BagCardinality(fetching) = numWorkers

\* C9: the job channel and the result channel hold at most chunkSize
\* entries each, and the identifiers enqueued in the chunk are as many as
\* those in the job channel, inside a lookup or at the send of its result,
\* in the result channel and received by the writer's loop together.  While
\* the chunk is open or drained, chunkCount is the number enqueued.
QueuesBounded ==
    /\ Len(jobs) <= chunkSize
    /\ Len(results) <= chunkSize
    /\ Len(chunkIds) = Len(jobs) + BagCardinality(fetching) + BagCardinality(pushing)
                         + Len(results) + Len(chunkItems)
    /\ (mainPc = "export" /\ chunkCount > 0) => chunkCount = Len(chunkIds)

\* A full chunk with the result of a failed lookup written, a second result
\* in the result channel and the third identifier inside a lookup.
QueuesBoundedWitness ==
    /\ Len(chunkIds) = chunkSize
    /\ Len(chunkItems) = 1
    /\ chunkItems[1].body = EmptyString
    /\ Len(results) = 1
    /\ BagCardinality(fetching) = 1

\* Something of a class pipeline has happened: main is past GetDailyExports
\* into the exports, an output data file exists, or an export has begun.
PipelineStarted ==
    \/ mainPc \in {"classes", "export"}
    \/ \E c \in Classes : dataFile[c] # "absent"
    \/ dpc # "none"
    \/ cycles > 0
    \/ jobs # <<>> \/ fetching # EmptyBag \/ pushing # EmptyBag \/ results # <<>>

\* C10: whenever any part of a class pipeline has started (an output data
\* file created, a pool started, a lookup issued), the snapshot of every one
\* of the seven classes has been written; a run that ends without an error
\* has written them all.
SnapshotsFirst ==
    /\ PipelineStarted => acquired = Classes
    /\ mainPc = "done" => acquired = Classes

\* A lookup of the last class is in flight.
SnapshotsFirstWitness ==
    /\ mainPc = "export"
    /\ cls = NumClasses
    /\ dataFile[CurrentClass] = "open"
    /\ fetching # EmptyBag

\* The classes whose snapshot was requested in this run.
Requested == {c \in Classes : gets[c] > 0}

\* C11: the Acquirer sends at most one GET per class, exactly one to each
\* class once it has succeeded; when a request, a gzip stream, a read or a
\* file write has failed, main has exited with status 1 at once: the failed
\* class is the only one requested and not acquired, no other snapshot was
\* requested afterwards, and no part of any pipeline (so no lookup) started.
AcquireFailureIsFatal ==
    /\ \A c \in Classes : gets[c] <= 1
    /\ acquired \subseteq Requested
    /\ mainPc \in {"classes", "export", "done"} => Requested = Classes
    /\ runErr \in Stages =>
         /\ mainPc = "exit1"
         /\ Cardinality(Requested \ acquired) = 1
         /\ ~PipelineStarted
    /\ runErr \notin Stages => Requested = acquired

\* The gzip stream of the fourth snapshot requested was corrupt.
AcquireFailureIsFatalWitness ==
    /\ runErr = "gzip"
    /\ mainPc = "exit1"
    /\ Cardinality(acquired) = 3
    /\ Cardinality(Requested) = 4

\* The classes whose pipeline main runs: not ids-only and not skipped.
Exported == {c \in Classes : ~justIDs /\ ~skip[c]}

\* C12 as stated: a run that ended with status 0 left, for every class, a
\* snapshot file and an output data file.
EveryClassBothFiles ==
    mainPc = "done" =>
        \A c \in Classes : exportFile[c] # NoFile /\ dataFile[c] # "absent"

\* C12, amended: the fourteen file names are distinct; no snapshot file is
\* written and no output data file is created more than once in a run; an
\* output data file exists only for a class that is exported; and when the
\* run has ended with status 0 every class has its snapshot file, written
\* once, and has an output data file (closed) exactly if the run is not
\* ids-only and the class is not skipped.
OneFilePerClassRun ==
    /\ \A c, d \in Classes :
         /\ ExportFileName[c] # DataFileName[d]
         /\ c # d => ExportFileName[c] # ExportFileName[d]
         /\ c # d => DataFileName[c] # DataFileName[d]
    /\ \A c \in Classes : gets[c] <= 1
    /\ \A i, j \in 1..Len(order) : order[i] = order[j] => i = j
    /\ \A c \in Classes :
         dataFile[c] # "absent" => c \in Exported /\ c \in Range(order)
    /\ mainPc = "done" =>
         \A c \in Classes :
            /\ gets[c] = 1
            /\ exportFile[c] = Snapshot(c, run)
            /\ c \in Exported => dataFile[c] = "closed"
            /\ c \notin Exported => dataFile[c] = "absent"

\* A run ended with status 0 in which Person was skipped and Movie was not.
OneFilePerClassRunWitness ==
    /\ mainPc = "done"
    /\ ~justIDs
    /\ skip["Person"]
    /\ dataFile["Person"] = "absent"
    /\ dataFile["Movie"] = "closed"
    /\ exportFile["Person"] = Snapshot("Person", 1)

\* No goroutine of a pool holds a job or a result, and both channels are
\* empty.
PoolQuiet ==
    /\ jobs = <<>>
    /\ results = <<>>
    /\ fetching = EmptyBag
    /\ pushing = EmptyBag

\* The position of a class in the order the specification gives.
Position(c) ==
    CHOOSE i \in 1..7 :
        <<"Movie", "TV Series", "Person", "Collection", "TV Network", "Keyword", "Company">>[i] = c

\* C13: the pipelines started so far, in the order they started, are classes
\* that are not skipped, each once, in the order Movie, TV Series, Person,
\* Collection, TV Network, Keyword, Company, and a run that ends with status
\* 0 and is not ids-only has run every class that is not skipped; only the
\* class main is in has its output data file open, only while its export
\* runs is a job, a lookup or a result in flight; and when main is between
\* two classes, or the next class has just created its output file, the
\* pool is quiet, the export before has returned nil with one line in its
\* file for every line read and nothing left in its writer, and the output
\* file of every class run before is closed.
PipelinesInTurn ==
    /\ \A i, j \in 1..Len(order) : i < j => Position(order[i]) < Position(order[j])
    /\ \A c \in Range(order) : ~skip[c] /\ ~justIDs
    /\ mainPc = "done" /\ ~justIDs => Range(order) = {c \in Classes : ~skip[c]}
    /\ \A c \in Classes :
         dataFile[c] = "open" =>
             mainPc = "export" /\ c = CurrentClass /\ c = order[Len(order)]
    /\ ~PoolQuiet => mainPc \in {"export", "exit1"} /\ dpc \notin {"none", "open"}
    /\ mainPc = "classes" \/ (mainPc = "export" /\ dpc = "open") =>
         /\ PoolQuiet
         /\ \A c \in Range(order) :
              dataFile[c] = "open" \/ dataFile[c] = "closed"
         /\ \A c \in Range(order) :
              dataFile[c] = "open" => mainPc = "export" /\ c = CurrentClass
    /\ mainPc = "classes" /\ order # <<>> =>
         /\ ReturnedOk
         /\ Len(out) = rowCount
         /\ wbuf = <<>>

\* TV Series is skipped: a lookup of Person is in flight after the pipeline
\* of Movie wrote its line and closed its file.
PipelinesInTurnWitness ==
    /\ mainPc = "export"
    /\ order = <<"Movie", "Person">>
    /\ CurrentClass = "Person"
    /\ fetching # EmptyBag
    /\ dataFile["Movie"] = "closed"
    /\ dataFile["Person"] = "open"

\* C14: in a run with -justIDs main is only ever validating the output path,
\* acquiring, or ended: no export is called, no output data file exists, no
\* pool is started, no worker goroutine exists, no job, lookup or result is
\* in flight, whatever the skip flags are; and when the run has ended with
\* status 0 the snapshot of every class has been written.
IdsOnlyStopsAfterAcquirer ==
    justIDs =>
        /\ mainPc \in {"validate", "acquire", "done", "exit1"}
        /\ dpc = "none"
        /\ order = <<>>
        /\ \A c \in Classes : dataFile[c] = "absent"
        /\ cycles = 0
        /\ idle = 0 /\ lingering = 0
        /\ PoolQuiet
        /\ mainPc = "done" =>
             /\ acquired = Classes
             /\ \A c \in Classes : exportFile[c] = Snapshot(c, run)

\* An ids-only run in which no class is skipped has ended with status 0.
IdsOnlyStopsAfterAcquirerWitness ==
    /\ justIDs
    /\ \A c \in Classes : ~skip[c]
    /\ mainPc = "done"
    /\ acquired = Classes

\* C15: a run ends with status 0 only with no error from any stage it ran
\* (the output path validated, every snapshot acquired, every export it
\* called returned nil); it ends with status 1 only after an error; an
\* error of ValidateOutputPath or of GetDailyExports has ended the run with
\* status 1 with nothing of a later stage started; and an error of an
\* export leaves main at the return of that export or exited with status 1,
\* with no pipeline of a later class started.
ExitStatusByStage ==
    /\ mainPc = "done" =>
         /\ runErr = "" /\ exportErr = ""
         /\ dirDate # <<>>
         /\ acquired = Classes
         /\ order # <<>> => ReturnedOk
    /\ mainPc = "exit1" => runErr # "" \/ exportErr # ""
    /\ runErr = "path" =>
         /\ mainPc = "exit1"
         /\ Requested = {}
         /\ \A c \in Classes : exportFile[c] = NoFile
         /\ ~PipelineStarted
    /\ runErr \in Stages =>
         /\ mainPc = "exit1"
         /\ dirDate # <<>>
         /\ ~PipelineStarted
    /\ exportErr # "" =>
         /\ runErr = ""
         /\ mainPc \in {"export", "exit1"}
         /\ dpc = "returned"
         /\ order # <<>> /\ order[Len(order)] = CurrentClass
         /\ \A c \in LaterClasses : dataFile[c] = "absent"

\* The export of Person, the third class, could not open its identifier
\* list, and main exited with status 1.
ExitStatusByStageWitness ==
    /\ mainPc = "exit1"
    /\ exportErr = "open"
    /\ order = <<"Movie", "TV Series", "Person">>
    /\ dataFile["Person"] = "closed"

\* The dates used by the run so far: in the name of the output directory and
\* in the names of the snapshots requested.
DatesUsed == Range(dirDate) \cup UNION {Range(reqDate[c]) : c \in Classes}

\* C16: the Export Date is the one computed from the override and the clock
\* when the run was set up; it changes in no step of the run, however far
\* the clock moves; and the output directory and every snapshot requested
\* in the run carry the date of that one Export Date.
ExportDateFixed ==
    /\ [](/\ exportDate = NewMovieDB(override, setupAt)
          /\ DatesUsed \subseteq {Date(exportDate)}
          /\ \A c \in Requested : reqDate[c] # <<>>
          /\ mainPc \in {"acquire", "done"} => dirDate # <<>>)
    /\ [][run' = run => exportDate' = exportDate /\ setupAt' = setupAt]_vars

\* A run set up at 07:00 of day 2 without an override (Export Date: day 1)
\* requested its seventh snapshot after 08:00 of day 3.
ExportDateFixedWitness ==
    /\ override = NoOverride
    /\ setupAt = At(2, 7)
    /\ now = At(3, 8)
    /\ mainPc = "done"
    /\ acquired = Classes
    /\ dirDate = <<1>>
    /\ \A c \in Classes : reqDate[c] = <<1>>

\* C17: the snapshot file of a class acquired in this run holds exactly what
\* this run downloaded and decompressed for it, whatever an earlier run for
\* the same Export Date left in the file; until a later run requests the
\* class the file holds what the run before wrote.
LastWriteWins ==
    /\ \A c \in acquired : exportFile[c] = Snapshot(c, run)
    /\ run > 1 =>
         \A c \in Classes \ Requested : exportFile[c] = Snapshot(c, run - 1)

\* The second run for the same Export Date has acquired every class.
LastWriteWinsWitness ==
    /\ run = 2
    /\ mainPc = "done"
    /\ acquired = Classes
    /\ \A c \in Classes : exportFile[c] = Snapshot(c, 2)

\* C18: the results received from the result channel of the chunk, followed
\* by those still in it, are the results in the order the workers sent them;
\* and, while no write has failed, the lines the writer holds for the chunk
\* are, one by one and in that order, the lines of the results sent first.
\* (That this order can differ from the order of submission is the witness.)
WrittenInPushOrder ==
    /\ pushed = chunkItems \o results
    /\ exportErr # "write" =>
         /\ Len(chunkItems) <= Len(Written)
         /\ \A i \in 1..Len(chunkItems) : ChunkLines[i] = LineOf(pushed[i])

\* Identifiers 1, 2, 3 were submitted in that order; the results were sent
\* in the order 2, 3, 1 and the file holds the lines in the order 2, 3, 1.
WrittenInPushOrderWitness ==
    /\ ReturnedOk
    /\ numWorkers >= 2
    /\ chunkIds = <<1, 2, 3>>
    /\ [i \in 1..Len(pushed) |-> pushed[i].id] = <<2, 3, 1>>
    /\ out = <<BodyOf(2), BodyOf(3), BodyOf(1)>>

\* The line of the identifier file that the j-th job of the current chunk
\* was read from.
LineAt(j) == (cycles - 1) * chunkSize + j

\* The jobs sent in the current chunk, in the order they were sent.
JobsSent == [j \in 1..Len(chunkIds) |-> [id |-> chunkIds[j], chunk |-> cycles]]

\* C19: one job was sent for every line read (rowCount), none for any other;
\* the j-th job of a chunk carries the identifier of the line at that place
\* of the file (or 0 when the record has no id), so the jobs were sent in
\* the order of the lines; the job channel holds the jobs sent last, in the
\* order sent; and the line i of a job is in chunk number
\* floor((i - 1) / chunkSize), counting chunks from 0.
SubmittedInFileOrder ==
    /\ cycles = 0 => rowCount = 0 /\ chunkIds = <<>>
    /\ cycles > 0 =>
         /\ LineAt(Len(chunkIds)) = rowCount
         /\ Len(chunkIds) <= chunkSize
         /\ \A j \in 1..Len(chunkIds) :
              /\ chunkIds[j] \in {0, LineAt(j)}
              /\ cycles - 1 = (LineAt(j) - 1) \div chunkSize
    /\ Len(jobs) <= Len(chunkIds)
    /\ jobs = SubSeq(JobsSent, Len(chunkIds) - Len(jobs) + 1, Len(chunkIds))
    /\ \A job \in Range(jobs) \cup BagToSet(fetching) :
         job.id # 0 => job.chunk - 1 = (job.id - 1) \div chunkSize
    /\ \A item \in AllItems :
         item.id # 0 => item.chunk - 1 = (item.id - 1) \div chunkSize

\* Every line of a first, full chunk and of a second chunk has been sent,
\* and the job of line chunkSize + 1 is still in the job channel.
SubmittedInFileOrderWitness ==
    /\ cycles = 2
    /\ rowCount = chunkSize + 1
    /\ chunkIds = <<chunkSize + 1>>
    /\ jobs = <<[id |-> chunkSize + 1, chunk |-> 2]>>
    /\ Len(out) + Len(wbuf) = chunkSize

\* The statuses the specification names as retry triggers; a transport
\* error is an attempt without a response, status 0.
RetryTrigger(status) == status = 429 \/ status >= 500 \/ status = 0

RetryCapped ==
    /\ \A item \in AllItems :
         /\ item.attempts <= MaxRetryCount + 1
         /\ (/\ item.attempts = MaxRetryCount + 1
             /\ RetryTrigger(StatusAt(item.script, MaxRetryCount + 1)))
                => item.body = EmptyString
    /\ ChunkDone => Len(chunkItems) = Len(chunkIds)
    /\ exportErr # "write" =>
         \A i \in 1..Len(chunkItems) :
            (/\ chunkItems[i].attempts = MaxRetryCount + 1
             /\ RetryTrigger(StatusAt(chunkItems[i].script, MaxRetryCount + 1)))
                => ChunkLines[i] = EmptyString

\* A lookup was served 429 on MaxRetryCount + 2 attempts and 200 after
\* them: it was given up at attempt MaxRetryCount + 1 and its line is empty.
RetryCappedWitness ==
    /\ ReturnedOk
    /\ Len(chunkItems) = 1
    /\ chunkItems[1].script = Limited(MaxRetryCount + 2)
    /\ chunkItems[1].attempts = MaxRetryCount + 1
    /\ chunkItems[1].body = EmptyString
    /\ out = <<EmptyString>>

\* C22: the number of goroutines of the current pool goes down only in a
\* step taken when the job channel is closed and empty, and the goroutines
\* of earlier pools are those that were left at such a step; once the job
\* channel is closed and empty, every goroutine of the pool returns (or the
\* next pool is started and they are counted with the earlier pools, or the
\* process ends), and every goroutine of an earlier pool returns (or the
\* process ends).
WorkersExitAfterClose ==
    /\ [][PoolAlive' < PoolAlive => jobsClosed /\ jobs = <<>>]_vars
    /\ [](PoolAlive > 0 /\ ~(jobsClosed /\ jobs = <<>>) => PoolAlive = PoolSize)
    /\ (jobsClosed /\ jobs = <<>>) ~> (PoolAlive = 0 \/ ~jobsClosed \/ ~Running)
    /\ (lingering > 0) ~> (lingering = 0 \/ ~Running)

\* Every goroutine of the pool of a full chunk has returned while main is
\* still draining the chunk.
WorkersExitAfterCloseWitness ==
    /\ cycles = 1
    /\ dpc = "drain"
    /\ jobsClosed
    /\ jobs = <<>>
    /\ PoolAlive = 0
    /\ Len(results) = chunkSize

\* Jobs and results of the current chunk that CloseWorkerPool has not
\* received yet: in the job channel, in a lookup, held for sending, or in
\* the result channel.
Outstanding ==
    Len(jobs) + BagCardinality(fetching) + BagCardinality(pushing) + Len(results)

\* C23: while CloseWorkerPool is receiving, the number of results it waits
\* for is the number of identifiers sent in the chunk, what it still has to
\* receive is exactly what is in the job channel, in a lookup, held for
\* sending or in the result channel, and a job still in the channel has the
\* whole pool to take it; and under fair scheduling every export that was
\* called returns, whatever the length of the list.
ExportReturns ==
    /\ [](Draining =>
            /\ DrainCount = Len(chunkIds)
            /\ DrainCount - num = Outstanding
            /\ jobs # <<>> => PoolAlive = PoolSize)
    /\ (mainPc = "export") ~> (dpc = "returned")
    /\ <>(~Running)

\* The export of a list of chunkSize + 1 lines, one more than a full chunk,
\* has returned nil: its second drain received one result.
ExportReturnsWitness ==
    /\ ReturnedOk
    /\ rowCount = chunkSize + 1
    /\ cycles = 2
    /\ num = 1
    /\ Outstanding = 0

\* C24: every job in the job channel or in a lookup of a goroutine of the
\* current pool, and every result held for sending, in the result channel
\* or received by the current drain, was submitted in the current chunk;
\* and when the pool of the next chunk is started, both channels of the
\* chunk before are empty, its job channel is closed, none of its
\* goroutines holds a job or a result, and the new pool is numWorkers new
\* goroutines: those of the chunk before are left with their own channels,
\* from which they can only return.
QueuesPrivateToChunk ==
    /\ [](/\ \A job \in Range(jobs) \cup BagToSet(fetching) : job.chunk = cycles
          /\ \A item \in AllItems : item.chunk = cycles
          /\ lingering > 0 => cycles >= 2
          /\ lingering <= (cycles - 1) * numWorkers \/ cycles = 0)
    /\ [][cycles' = cycles + 1 =>
            /\ PoolQuiet
            /\ cycles > 0 => jobsClosed /\ num = chunkSize
            /\ idle' = numWorkers
            /\ lingering' = lingering + idle
            /\ results' = <<>>
            /\ \A job \in Range(jobs') : job.chunk = cycles + 1]_vars

\* A goroutine of the first chunk has not returned yet while a goroutine of
\* the second chunk looks up the identifier of line chunkSize + 1.
QueuesPrivateToChunkWitness ==
    /\ cycles = 2
    /\ lingering > 0
    /\ fetching = One([id |-> chunkSize + 1, chunk |-> 2])
    /\ idle = numWorkers - 1

\* main's goroutine takes no part in the step: it is at the same statement
\* with the same counters and the same snapshots acquired.
DriverStill == UNCHANGED <<mainPc, cls, acquired, dpc, num, rowCount, chunkCount>>

\* C25: a step in which the output file, the writer's buffer or the state
\* of the file changes is a step of main's goroutine inside the class
\* pipeline; a step in which main's goroutine takes no part (a step of a
\* worker) leaves the file, the writer, the error and the closing of the job
\* channel as they are, and does one of: receive the job at the head of the
\* job channel, return from the lookup of a job it holds, send a result it
\* holds to the back of the result channel, or return.
OnlyDriverWrites ==
    /\ [][fileVars' # fileVars => ~DriverStill /\ mainPc \in {"classes", "export"}]_vars
    /\ [][DriverStill =>
            /\ UNCHANGED <<fileVars, exportErr, jobsClosed, chunkItems, outChunk,
                           chunkIds, cycles, acqVars, order>>
            /\ \/ /\ jobs # <<>> /\ jobs' = Tail(jobs)
                  /\ fetching' = fetching (+) One(Head(jobs))
                  /\ UNCHANGED <<results, pushing>>
               \/ /\ \E job \in BagToSet(fetching) : fetching' = fetching (-) One(job)
                  /\ BagCardinality(pushing') = BagCardinality(pushing) + 1
                  /\ UNCHANGED <<jobs, results>>
               \/ /\ \E item \in BagToSet(pushing) :
                        /\ pushing' = pushing (-) One(item)
                        /\ results' = Append(results, item)
                  /\ UNCHANGED <<jobs, fetching>>
               \/ /\ idle + lingering = idle' + lingering' + 1
                  /\ UNCHANGED <<jobs, results, fetching, pushing>>]_vars

\* While main's goroutine has received one result of a full chunk and its
\* line is in the file, a second result waits in the result channel and a
\* worker holds the third.
OnlyDriverWritesWitness ==
    /\ dpc = "drain"
    /\ num = 1
    /\ Len(out) = 1
    /\ Len(results) = 1
    /\ BagCardinality(pushing) = 1

\* The class whose export main called last.
LastClass == order[Len(order)]

AcquirerIgnoresSwitches ==
    /\ mainPc = "acquire" =>
         \A c \in Classes \ acquired :
            ENABLED AcquireOk(c) /\ ENABLED AcquireFail(c)
    /\ mainPc = "acquire" =>
         (ENABLED AcquireDone <=> acquired = Classes)
    /\ mainPc \in {"classes", "export", "done"} =>
         /\ acquired = Classes
         /\ \A c \in Classes : gets[c] = 1 /\ exportFile[c] = Snapshot(c, run)
    /\ runErr \in Stages => mainPc = "exit1"

\* In an ids-only run in which Movie is skipped, the request for the
\* snapshot of Movie failed after three others were written, and the run
\* ended with status 1.
AcquirerIgnoresSwitchesWitness ==
    /\ justIDs
    /\ skip["Movie"]
    /\ runErr = "request"
    /\ mainPc = "exit1"
    /\ Requested \ acquired = {"Movie"}
    /\ Cardinality(acquired) = 3

\* C28: in a run set up without an override the Export Date is the UTC date
\* of the moment of setup when its hour is 8 or more and the date before it
\* when its hour is less than 8; in a run set up with a well-formed
\* override it is the date of the override, whatever the clock showed then
\* or shows now.
ExportDateComputed ==
    /\ override = NoOverride /\ Hour(setupAt) >= 8 =>
         Date(exportDate) = Date(setupAt)
    /\ override = NoOverride /\ Hour(setupAt) < 8 =>
         Date(exportDate) = Date(setupAt) - 1
    /\ override.text = "date" =>
         Date(exportDate) = override.day /\ Hour(exportDate) = 0

\* A second run, set up at 07:00 of day 3 without an override, has the
\* Export Date of day 2 and uses the output directory of day 2.
ExportDateComputedWitness ==
    /\ override = NoOverride
    /\ run = 2
    /\ setupAt = At(3, 7)
    /\ Date(exportDate) = 2
    /\ dirDate = <<2>>

\* C29: whenever main's goroutine
\* is at the scan loop, where it may send an identifier next, the job
\* channel holds fewer than chunkSize jobs, and whenever a worker holds a
\* result to send, the result channel holds fewer than chunkSize results,
\* because the jobs sent and the results in being never number more than
\* the chunkCount <= chunkSize identifiers of the chunk; so neither send
\* ever waits, and while the process runs some goroutine can always take a
\* step.
SendsNeverBlock ==
    /\ chunkCount <= chunkSize
    /\ Len(jobs) <= chunkCount
    /\ Len(results) + BagCardinality(pushing) <= chunkCount
    /\ mainPc = "export" /\ dpc = "scan" =>
         /\ chunkCount < chunkSize
         /\ Len(jobs) < chunkSize
         /\ Len(jobs) < Capacity
    /\ pushing # EmptyBag =>
         /\ Len(results) < chunkSize
         /\ Len(results) < Capacity
         /\ Running => \A item \in BagToSet(pushing) : ENABLED WorkerPush(item)
    /\ Running => ENABLED PairNext

\* The job channel of a full chunk is closed and main's goroutine has
\* received nothing yet; the result channel holds chunkSize - 1 results and
\* a worker sends the last one.
SendsNeverBlockWitness ==
    /\ dpc = "drain"
    /\ num = 0
    /\ Len(results) = chunkSize - 1
    /\ BagCardinality(pushing) = 1
    /\ jobs = <<>>

\* C30: with a worker count of 1 at most one goroutine of the pool holds a
\* job or a result; the results sent in a chunk are, in order, those of the
\* identifiers submitted in the chunk, and so are the results received; and,
\* while no write has failed, the p-th line handed to the writer is the
\* record looked up for the identifier of line p of the list (for the
\* identifier 0 when the record of line p has no id), over the whole file.
OneWorkerKeepsOrder ==
    workerCount = 1 =>
        /\ BagCardinality(fetching) + BagCardinality(pushing) <= 1
        /\ Len(pushed) <= Len(chunkIds)
        /\ \A i \in 1..Len(pushed) :
             pushed[i].id = chunkIds[i] /\ pushed[i].chunk = cycles
        /\ \A i \in 1..Len(chunkItems) : chunkItems[i] = pushed[i]
        /\ exportErr # "write" =>
             /\ \A p \in 1..Len(Written) : Written[p] \in {BodyOf(p), BodyOf(0)}
             /\ \A i \in 1..Len(chunkItems) :
                  ChunkLines[i] = BodyOf(chunkIds[i])

\* The export of a list of chunkSize + 1 records, each with its id, has
\* returned nil: line p of the file is the record of identifier p.
OneWorkerKeepsOrderWitness ==
    /\ workerCount = 1
    /\ ReturnedOk
    /\ rowCount = chunkSize + 1
    /\ out = [p \in 1..(chunkSize + 1) |-> BodyOf(p)]

\* A status of success.
Success(status) == status >= 200 /\ status < 300

\* C31: a lookup whose first attempt ended with a status that is neither a
\* success nor retried (304, 404) made that one attempt only; every lookup
\* whose last attempt did not end with a success, this one and one that
\* used up its retries alike, has the empty string as its result; no result
\* and no line written is the body of an error response: each is the record
\* of the identifier or the empty string.
UnretriedFailureIsEmptyLine ==
    /\ \A item \in AllItems :
         LET first == StatusAt(item.script, 1)
             last == StatusAt(item.script, item.attempts)
         IN
         /\ ~Success(first) /\ ~RetryTrigger(first) => item.attempts = 1
         /\ ~Success(last) => item.body = EmptyString
         /\ item.body \in {EmptyString, BodyOf(item.id)}
         /\ item.body # ErrorBody
    /\ exportErr # "write" =>
         /\ \A p \in 1..Len(Written) : Written[p] # ErrorBody
         /\ \A i \in 1..Len(chunkItems) :
              ~Success(StatusAt(chunkItems[i].script, chunkItems[i].attempts))
                  => ChunkLines[i] = EmptyString

\* A lookup served 404 made one attempt, and the export returned nil with
\* an empty line for it.
UnretriedFailureIsEmptyLineWitness ==
    /\ ReturnedOk
    /\ Len(chunkItems) = 1
    /\ chunkItems[1].script = NotFound
    /\ chunkItems[1].attempts = 1
    /\ out = <<EmptyString>>

NoIdLines == CountIn(chunkIds, 0)

\* C33: a line that is a JSON object without an id field does not fail the
\* export: the unmarshal error is returned only when a line that does not
\* parse was met.  For every such line of the chunk the identifier 0 was
\* submitted and is at exactly one stage of the pipeline (queued, being
\* looked up, sent or received), so one lookup is made for it; when the
\* chunk is drained one result for identifier 0 was received per such
\* line and its line, the outcome of the lookup of identifier 0, was handed
\* to the writer; an export that returned nil wrote one line per line read.
NoIdLineIsIdentifierZero ==
    /\ exportErr = "unmarshal" => sawMalformed
    /\ StageCount(0) = NoIdLines
    /\ \A e \in Range(jobs) \cup BagToSet(fetching) \cup AllItems :
         e.id = 0 => e.chunk = cycles
    /\ ChunkDone =>
         /\ CountOf(chunkItems, 0) = NoIdLines
         /\ \A i \in 1..Len(chunkItems) :
              chunkItems[i].id = 0 =>
                  ChunkLines[i] = Fetch(chunkItems[i].script, 0)
    /\ ReturnedOk => Len(out) = rowCount

\* A list of two lines, the first without an id field, was exported: two
\* lines were written, one of them the successful lookup of identifier 0.
NoIdLineIsIdentifierZeroWitness ==
    /\ ReturnedOk
    /\ ~sawMalformed
    /\ chunkIds = <<0, 2>>
    /\ Len(out) = 2
    /\ \E p \in 1..2 : out[p] = BodyOf(0)

\* C34: the output data file of a class is created before its identifier
\* list is opened: while the list is about to be opened, and whenever it is
\* being read, the file exists and is open, and before the open it is empty.
\* When opening the list fails the export has returned that error, main
\* goes to exit status 1, no line was read and no pool started, and the
\* file is left behind, closed and empty; only a failed os.Create leaves no
\* file of the class.
CreatedBeforeListOpened ==
    /\ dpc = "open" =>
         /\ dataFile[LastClass] = "open"
         /\ exportErr = ""
         /\ out = <<>> /\ wbuf = <<>>
         /\ rowCount = 0 /\ cycles = 0
    /\ dpc \in {"scan", "drain", "lastDrain"} => dataFile[LastClass] = "open"
    /\ exportErr = "open" =>
         /\ dpc = "returned"
         /\ mainPc \in {"export", "exit1"}
         /\ dataFile[LastClass] = "closed"
         /\ out = <<>> /\ wbuf = <<>>
         /\ rowCount = 0 /\ cycles = 0
         /\ \A c \in LaterClasses : dataFile[c] = "absent"
    /\ exportErr = "create" => dataFile[LastClass] = "absent"

\* The identifier list of the first class could not be opened: the process
\* is at exit status 1 and the only output data file is that of the class,
\* closed and empty.
CreatedBeforeListOpenedWitness ==
    /\ mainPc = "exit1"
    /\ exportErr = "open"
    /\ order = <<"Movie">>
    /\ dataFile = [c \in Classes |-> IF c = "Movie" THEN "closed" ELSE "absent"]
    /\ out = <<>>

\* C35: an export-date override that is not a YYYY-MM-DD date is not
\* rejected: the Export Date of the run is the zero time, the output
\* directory and every snapshot request of the run are named after the zero
\* date whatever the clock shows, set-up leaves no error (the run is at the
\* validation of the output path with no error, and a run that ends with
\* status 1 failed at the output path or at a snapshot), and the run goes on
\* to the snapshots.
BadOverrideIsZeroDate ==
    override = BadOverride =>
        /\ exportDate = At(0, 0)
        /\ Date(exportDate) = 0
        /\ DatesUsed \subseteq {0}
        /\ mainPc = "validate" => runErr = ""
        /\ runErr \in {"", "path"} \cup Stages
        /\ mainPc = "exit1" <=> runErr # ""
        /\ mainPc = "acquire" => dirDate # <<>>
        /\ \A c \in acquired : reqDate[c] # <<>>

\* A run with an override that is no date, set up on day 2, fetched all
\* seven snapshots for the zero date into the directory of the zero date.
BadOverrideIsZeroDateWitness ==
    /\ override = BadOverride
    /\ Date(setupAt) = 2
    /\ run = 1
    /\ mainPc = "done"
    /\ acquired = Classes
    /\ dirDate = <<0>>
    /\ \A c \in Classes : reqDate[c] = <<0>>

====
